---- MODULE Spec2Model ----
(***************************************************************************)
(* PERCIA v2.0: the global lock manager (src/src/scripts/lock_manager.py)  *)
(* and the commit coordinator (src/src/scripts/commit_coordinator.py),     *)
(* the revision that web-interface/app.py, serve_production.py and the     *)
(* test suite import.                                                      *)
(*                                                                         *)
(* An agent is one LockManager instance.  Every instance lives in an OS    *)
(* process (pidOf); two instances may share a process, as they do when     *)
(* app.py builds a fresh LockManager per request.  All instances share the *)
(* lock info file, the queue file and the clock.                           *)
(*                                                                         *)
(* The coordinator's handlers build, index and update a transaction as a   *)
(* mapping (state['phase'], state['backup_id'], ...); the model keeps that *)
(* mapping and takes _save_transaction_state / _load_transaction_state by  *)
(* their effect on the state file.  _cleanup_backup, which                 *)
(* commit_transaction calls and the class does not define, raises.         *)
(*                                                                         *)
(* Queue calls made by threads on LockManager objects of their choice are  *)
(* taken read by write (SpecQueue).  refresh_lock exists only in the       *)
(* revision with owner tokens, percia-v2-parches-gemini/percia-v2-parches/ *)
(* scripts/lock_manager.py; its acquire, release, refresh and watchdog,    *)
(* which run under a cross-process mutex, are modelled in SpecOwner.  That *)
(* revision's queue of items (enqueue_operation, dequeue_operation,        *)
(* complete_operation), which takes no mutex, and its submit_operation are *)
(* modelled in SpecDequeue and SpecSubmit.  SpecInsert keeps the wait      *)
(* queue's entries with priority and queued_at to check its order;         *)
(* SpecSeq runs transactions one after the other; SpecAbandon, with        *)
(* fairness, has agents that keep calling begin_transaction.               *)
(***************************************************************************)
EXTENDS Integers, Sequences, FiniteSets, TLC

\* ------------------------------------------------------------------ bounds
NumAgents == 2
NumPids == 2
MaxTime == 2
MaxTTL == 2
MaxTimeout == 2
MaxTx == 1
MaxSeq == 2
MaxContent == 1
MaxOwners == 3
MaxCommits == 3
MaxPriority == 1
MaxQueue == 3
MaxItems == 2

\* acquire_global_lock(..., timeout: float = 30.0), in clock ticks of 15 s
DEFAULT_TIMEOUT == 2
\* DEFAULT_TTL = 300, in clock ticks of 15 s
DEFAULT_TTL == 20
\* abs(actual_start_time - expected_start_time) > 1.0
START_TOLERANCE == 1
\* the create_time() of the processes that exist at start
InitStart == 1

Agents == 1..NumAgents
Contents == 0..MaxContent
Pids == 1..NumPids

VARIABLES
    clock,      \* time.time() / datetime.now()
    psutil,     \* PSUTIL_AVAILABLE
    proc,       \* the OS process table: pid -> [st, start]
    pidOf,      \* os.getpid() of each instance
    lockFile,   \* .percia_lock_info.json: a LockInfo, or NoLock
    queue,      \* .percia_queue.json: a sequence of QueueEntry
    pc,         \* where each instance's calling thread is
    mode,       \* "direct": acquire_global_lock called directly; "ctx": through lock_context
    acquired,   \* lock_context's local flag
    reent,      \* the running acquire was called while the caller held the lock
    force,      \* release_global_lock's argument
    deadline,   \* start_time + timeout of the running acquire
    wd,         \* each instance's watchdog thread
    txFile,     \* .percia/current_transaction.json: the transaction mapping, or NoTx
    backups,    \* .percia/backups/backup_<timestamp>: timestamp -> backup, or NoBackup
    work,       \* the content of the tracked file in the working tree
    index,      \* its content in the git index
    commits,    \* the git object store: hash -> [tree, parent]
    head,       \* git rev-parse HEAD
    remote,     \* the tip of the remote branch, 0 when nothing was pushed
    call,       \* the coordinator call each instance is running
    nextId,     \* the next transaction id _generate_transaction_id hands out
    qpc,        \* where each thread that calls a queue operation is
    qInst,      \* the LockManager instance whose _queue_mutex the thread holds
    qLocal,     \* the thread's local `queue`, as _read_queue returned it
    qEnq,       \* the thread's last completed call was _add_to_queue
    qSeen,      \* the entries the thread's last get_queue_status returned
    lock_file,  \* .percia/lock.json of the revision with owner tokens
    _owner_id,  \* self._owner_id of each instance of that revision, 0 for None
    uuid4,      \* the next token _generate_owner_id hands out
    returned,   \* what each instance's last call of that revision returned
    sq,         \* a wait queue whose entries carry priority and queued_at
    queue_file, \* .percia/queue.json of the revision with owner tokens
    nextItem,   \* the next queue_id enqueue_operation hands out
    dpc,        \* where each caller of dequeue_operation is
    dLocal,     \* the caller's local `queue`, as _load_queue returned it
    handed,     \* queue_id -> how many dequeue_operation calls returned the item
    spc,        \* where each caller of submit_operation is
    sItem,      \* the queue_id of the caller's submit_operation
    outcome     \* the status the caller's last submit_operation returned

lockVars == <<lockFile, queue, pc, mode, acquired, reent, force, deadline, wd>>
envVars == <<clock, psutil, proc, pidOf>>
gitVars == <<work, index, commits, head, remote>>
txVars == <<txFile, backups, work, index, commits, head, remote, call, nextId>>
queueVars == <<qpc, qInst, qLocal, qEnq, qSeen>>
ownerVars == <<lock_file, _owner_id, uuid4, returned>>
sortVars == <<sq>>
itemVars == <<queue_file, nextItem, dpc, dLocal, handed, spc, sItem, outcome>>
auxVars == <<queueVars, ownerVars, sortVars, itemVars>>
vars == <<clock, psutil, proc, pidOf, lockFile, queue, pc, mode, acquired, reent,
          force, deadline, wd, txFile, backups, work, index, commits, head,
          remote, call, nextId, qpc, qInst, qLocal, qEnq, qSeen,
          lock_file, _owner_id, uuid4, returned, sq,
          queue_file, nextItem, dpc, dLocal, handed, spc, sItem, outcome>>

\* ------------------------------------------------------------- lock record
NoLock == [ia_id |-> 0, acquired_at |-> 0, ttl_seconds |-> 0, pid |-> 0,
           process_start_time |-> 0]

LockInfo(ia, at, ttl, pid, pst) ==
    [ia_id |-> ia, acquired_at |-> at, ttl_seconds |-> ttl, pid |-> pid,
     process_start_time |-> pst]

Abs(x) == IF x < 0 THEN -x ELSE x

\* _read_lock_info: None when the file does not exist
_read_lock_info == lockFile

\* A liveness test that, with psutil, does not compare creation times.
_is_process_alive_no_identity(pid, expected_start_time) ==
    IF ~psutil
    THEN proc[pid].st # "gone"
    ELSE proc[pid].st = "running"

\* _is_process_alive(pid, expected_start_time)
_is_process_alive(pid, expected_start_time) ==
    IF ~psutil
    THEN \* os.kill(pid, 0): succeeds for every pid that exists, a zombie too
         proc[pid].st # "gone"
    ELSE IF proc[pid].st = "gone" THEN FALSE            \* psutil.NoSuchProcess
    ELSE IF proc[pid].st = "zombie" THEN FALSE          \* STATUS_ZOMBIE
    ELSE IF expected_start_time > 0
            /\ Abs(proc[pid].start - expected_start_time) > START_TOLERANCE
         THEN FALSE                                     \* pid reused
    ELSE TRUE

\* A staleness test that looks at the TTL only.
_is_lock_stale_ttl_only(lock_info) ==
    clock > lock_info.acquired_at + lock_info.ttl_seconds

\* A staleness test that looks at the holder's process only.
_is_lock_stale_liveness_only(lock_info) ==
    ~_is_process_alive(lock_info.pid, lock_info.process_start_time)

\* _is_lock_stale(lock_info)
_is_lock_stale(lock_info) ==
    IF clock > lock_info.acquired_at + lock_info.ttl_seconds
    THEN TRUE
    ELSE ~_is_process_alive(lock_info.pid, lock_info.process_start_time)

\* ------------------------------------------------------------------- queue
QueueEntry(ia) == [ia_id |-> ia, priority |-> 0]

InQueue(q, ia) == \E i \in 1..Len(q) : q[i].ia_id = ia

\* An _add_to_queue that writes nothing.
_add_to_queue_skip(q, ia) == q

\* An _add_to_queue without the duplicate test.
_add_to_queue_dup(q, ia) == Append(q, QueueEntry(ia))

\* _add_to_queue: no duplicates; append, then a stable sort by priority desc
\* (every entry this file creates has priority 0, so the order is insertion order)
_add_to_queue(q, ia) ==
    IF InQueue(q, ia) THEN q ELSE Append(q, QueueEntry(ia))

\* A _remove_from_queue that drops nothing.
_remove_from_queue_nothing(q, ia) == q

\* _remove_from_queue
_remove_from_queue(q, ia) == SelectSeq(q, LAMBDA e : e.ia_id # ia)

\* QueueEntry(ia_id, operation_type, queued_at, priority), with the fields
\* the order of the queue depends on
QueueEntry_at(ia, priority, now) ==
    [ia_id |-> ia, priority |-> priority, queued_at |-> now]

\* A sort that leaves the list as it is.
sort_priority_nothing(q) == q

\* queue.sort(key=lambda x: x.priority, reverse=True).  list.sort is stable,
\* also with reverse=True: entries of equal priority keep their order.  An
\* entry comes after the entries of higher priority and after the entries of
\* its own priority that stood before it.
sort_priority(q) ==
    LET before(i) == {j \in 1..Len(q) :
                        \/ q[j].priority > q[i].priority
                        \/ q[j].priority = q[i].priority /\ j < i}
    IN [k \in 1..Len(q) |->
          q[CHOOSE i \in 1..Len(q) : Cardinality(before(i)) = k - 1]]

\* _add_to_queue(ia_id, operation_type, priority) at time now: nothing when
\* the agent is in the list; else the entry is appended with
\* queued_at = datetime.now() and the list is sorted
_add_to_queue_priority(q, ia, priority, now) ==
    IF InQueue(q, ia) THEN q
    ELSE sort_priority(Append(q, QueueEntry_at(ia, priority, now)))

\* ----------------------------------------- the revision with owner tokens
\* (percia-v2-parches-gemini/percia-v2-parches/scripts/lock_manager.py)
\* No lock.json; else its LockInfo.
NoOwnerLock ==
    [owner_id |-> 0, ia_id |-> 0, pid |-> 0, acquired_at |-> 0, expires_at |-> 0]

\* No call yet; else the call and its value.  seq tells one call from the next.
NoResult == [op |-> "none", ok |-> FALSE, seq |-> 0]
Result(op, ok, last) == [op |-> op, ok |-> ok, seq |-> 1 - last.seq]

\* self.ttl_seconds, fixed when the instance is built
ttl_seconds == [a \in Agents |-> ((a - 1) % MaxTTL) + 1]

\* LockInfo.is_expired: datetime.now() > expires
is_expired(lock_info) == clock > lock_info.expires_at

_read_lock == lock_file

\* An ownership test that every caller passes.
IsOwner_anyone(current_lock, owner) == TRUE

\* current_lock.owner_id != self._owner_id, negated
IsOwner(current_lock, owner) == current_lock.owner_id = owner

\* ------------------------------------ the queue of the owner-token revision
\* submit_operation enqueues with priority=5, enqueue_operation's default
QUEUE_PRIORITY == 5

\* QueueItem(queue_id, ia_id, ..., priority, enqueued_at, status="pending")
QueueItem(queue_id, ia, priority, now) ==
    [queue_id |-> queue_id, ia_id |-> ia, priority |-> priority,
     enqueued_at |-> now, status |-> "pending"]

\* queue.sort(key=lambda x: (x.priority, x.enqueued_at)): ascending, stable
sort_priority_enqueued_at(q) ==
    LET less(x, y) == \/ x.priority < y.priority
                      \/ x.priority = y.priority /\ x.enqueued_at < y.enqueued_at
        before(i) == {j \in 1..Len(q) :
                        \/ less(q[j], q[i])
                        \/ ~less(q[i], q[j]) /\ j < i}
    IN [k \in 1..Len(q) |->
          q[CHOOSE i \in 1..Len(q) : Cardinality(before(i)) = k - 1]]

\* the index of the first item of q whose status is "pending", 0 if none
FirstPending(q) ==
    IF \E i \in 1..Len(q) : q[i].status = "pending"
    THEN CHOOSE i \in 1..Len(q) :
            /\ q[i].status = "pending"
            /\ \A j \in 1..(i - 1) : q[j].status # "pending"
    ELSE 0

\* complete_operation(queue_id, success): the list it saves
complete_operation(q, queue_id, success) ==
    [i \in 1..Len(q) |->
        IF q[i].queue_id = queue_id
        THEN [q[i] EXCEPT !.status = IF success THEN "completed" ELSE "failed"]
        ELSE q[i]]

\* ------------------------------------------------- transaction and backups
\* The handlers build, read and update the transaction as a mapping
\* (state.get('phase'), state['phase'] = ...) and hand it to
\* _save_transaction_state / take it from _load_transaction_state; the model
\* keeps the mapping's keys that the handlers read.
NoTx == [transaction_id |-> 0, phase |-> "none", ia_id |-> 0, backup_id |-> -1,
         pid |-> 0, git_head |-> 0, error |-> ""]

NoBackupId == -1
\* a backup directory: dir says that it exists, content is the copy of the
\* tracked file (-1: no copy), commit_hash is git_state.json (0: not written)
NoBackup == [dir |-> FALSE, content |-> -1, commit_hash |-> 0]

\* The files argument of begin_transaction, by what the path checks of
\* _create_backup see:
\*   "none"    no files given
\*   "inside"  the tracked file by its repository-relative path
\*   "dotdot"  the tracked file by a path with a '..' segment, or by its
\*             absolute path: it resolves inside the repository
\*   "outside" an existing file that resolves outside the repository
\*   "missing" a path at which no file exists
Paths == {"none", "inside", "dotdot", "outside", "missing"}

NoCall == [op |-> "none", transaction_id |-> 0, files |-> "none"]

\* if pending and pending.phase not in ['committed', 'rolled_back', 'failed']
TerminalPhases == {"committed", "rolled_back", "failed"}

\* What the coordinator's helpers read and write, as one value: the
\* transaction file, the backups, the working tree, the index, the commits
\* and HEAD.
Store ==
    [tx |-> txFile, bk |-> backups, work |-> work, index |-> index,
     commits |-> commits, head |-> head]

\* --------------------------------------------------------------------- git
RECURSIVE IsAncestor(_, _, _)
\* commit x is reachable from commit y
IsAncestor(cs, x, y) ==
    IF y = 0 THEN FALSE
    ELSE IF x = y THEN TRUE
    ELSE IsAncestor(cs, x, cs[y].parent)

Tree(s, h) == s.commits[h].tree

\* git add <file>
git_add(s) == [s EXCEPT !.index = s.work]

\* git commit -m: exits 1 with nothing staged, and _run_git raises
NothingToCommit(s) == s.index = Tree(s, s.head)

\* A git commit that records nothing and leaves HEAD where it is.
git_commit_nothing(s) == s

git_commit(s) ==
    [s EXCEPT !.commits = Append(s.commits, [tree |-> s.index, parent |-> s.head]),
              !.head = Len(s.commits) + 1]

\* git reset --soft <hash>: only HEAD moves
git_reset_soft(s, h) == [s EXCEPT !.head = h]

\* git reset --hard <hash>: HEAD, index and working tree
git_reset_hard(s, h) ==
    [s EXCEPT !.head = h, !.index = Tree(s, h), !.work = Tree(s, h)]

\* git revert --no-edit HEAD refuses to run over local changes
RevertRefused(s) == s.index # Tree(s, s.head) \/ s.work # Tree(s, s.head)

\* git revert --no-edit HEAD: a new commit with the parent's tree
git_revert_head(s) ==
    LET t == Tree(s, s.commits[s.head].parent) IN
    [s EXCEPT !.commits = Append(s.commits, [tree |-> t, parent |-> s.head]),
              !.head = Len(s.commits) + 1,
              !.index = t, !.work = t]

\* _is_commit_pushed: git branch -r --contains <hash> prints something
_is_commit_pushed(s, commit_hash) == IsAncestor(s.commits, commit_hash, remote)

\* _get_git_head
_get_git_head(s) == s.head

\* ----------------------------------------------------------------- backups
\* _cleanup_old_backups: the BACKUP_RETENTION_COUNT newest directories stay
BACKUP_RETENTION_COUNT == 10

_cleanup_old_backups(bk) ==
    [t \in DOMAIN bk |->
        IF Cardinality({u \in DOMAIN bk : u > t /\ bk[u] # NoBackup})
               < BACKUP_RETENTION_COUNT
        THEN bk[t] ELSE NoBackup]

\* _create_backup(files): the store it leaves, and ok = FALSE when it raises.
\* backup_<timestamp> is made first (mkdir, exist_ok).  A file that exists is
\* resolved and must lie under base_path, else ValueError; after resolve() no
\* '..' is left in the relative path, so that test never fires.  A file that
\* does not exist is skipped unchecked.  Then git_state.json gets the current
\* commit hash and old backups are cleaned.
_create_backup(s, files) ==
    LET made == [s EXCEPT !.bk[clock].dir = TRUE] IN
    IF files = "outside"
    THEN [s |-> made, ok |-> FALSE]
    ELSE
    LET copied == IF files \in {"inside", "dotdot"}
                  THEN [made EXCEPT !.bk[clock].content = s.work]
                  ELSE made
        stated == [copied EXCEPT !.bk[clock].commit_hash = s.head]
    IN [s |-> [stated EXCEPT !.bk = _cleanup_old_backups(stated.bk)],
        ok |-> TRUE]

\* _restore_from_backup: the store it leaves and the value it returns.  A
\* backup directory that does not exist -> False; else copy the files back,
\* then git reset --hard to the commit in git_state.json -> True
_restore_from_backup(s, backup_path) ==
    IF s.bk[backup_path] = NoBackup
    THEN [s |-> s, ok |-> FALSE]
    ELSE LET restored == IF s.bk[backup_path].content # -1
                         THEN [s EXCEPT !.work = s.bk[backup_path].content]
                         ELSE s
         IN
         [s |-> IF s.bk[backup_path].commit_hash # 0
                THEN git_reset_hard(restored, s.bk[backup_path].commit_hash)
                ELSE restored,
          ok |-> TRUE]

\* _save_transaction_state / _load_transaction_state
_save_transaction_state(s, state) == [s EXCEPT !.tx = state]
_load_transaction_state(s) == s.tx

\* ---------------------------------------------------------------- rollback
\* rollback(transaction_id): the store it leaves and the value it returns.
\* The except clause turns every error into False.  The value
\* _restore_from_backup returns is not looked at.
rollback(s, transaction_id) ==
    LET state == _load_transaction_state(s) IN
    IF state = NoTx
    THEN [s |-> s, ok |-> FALSE]
    ELSE IF transaction_id # 0 /\ state.transaction_id # transaction_id
    THEN [s |-> s, ok |-> FALSE]
    ELSE
    LET original_head == state.git_head
        current_head == _get_git_head(s)
        moved == original_head # 0 /\ current_head # original_head
    IN
    IF moved /\ _is_commit_pushed(s, current_head) /\ RevertRefused(s)
    THEN [s |-> s, ok |-> FALSE]
    ELSE
    LET s1 == IF ~moved THEN s
              ELSE IF _is_commit_pushed(s, current_head)
              THEN git_revert_head(s)
              ELSE git_reset_soft(s, original_head)
        s2 == IF state.backup_id # NoBackupId
              THEN _restore_from_backup(s1, state.backup_id).s
              ELSE s1
    IN [s |-> _save_transaction_state(s2, [state EXCEPT !.phase = "rolled_back"]),
        ok |-> TRUE]

\* ------------------------------------------------------- begin_transaction
\* An orphan test that finds every pending transaction orphaned.
_is_transaction_orphaned_always(transaction) == TRUE

\* _is_transaction_orphaned: psutil.pid_exists(pid), or os.kill(pid, 0)
_is_transaction_orphaned(transaction) ==
    IF transaction.pid = 0 THEN TRUE ELSE proc[transaction.pid].st = "gone"

\* The body of begin_transaction under the lock: the store it leaves and the
\* transaction id it returns (0 for None).  A pending transaction that is not
\* orphaned raises RuntimeError and a rejected path raises ValueError; the
\* except clause turns both into None.  The value rollback() returns is not
\* looked at.
begin_transaction_try(s, ia_id, files, caller_pid, transaction_id) ==
    LET pending == _load_transaction_state(s)
        active == pending # NoTx /\ pending.phase \notin TerminalPhases
    IN
    IF active /\ ~_is_transaction_orphaned(pending)
    THEN [s |-> s, id |-> 0]
    ELSE
    LET s0 == IF active THEN rollback(s, 0).s ELSE s
        b == IF files # "none" THEN _create_backup(s0, files)
             ELSE [s |-> s0, ok |-> TRUE]
        transaction_state ==
            [transaction_id |-> transaction_id, phase |-> "prepared",
             ia_id |-> ia_id,
             backup_id |-> IF files # "none" THEN clock ELSE NoBackupId,
             pid |-> caller_pid, git_head |-> _get_git_head(b.s), error |-> ""]
    IN IF ~b.ok
       THEN [s |-> b.s, id |-> 0]
       ELSE [s |-> _save_transaction_state(b.s, transaction_state),
             id |-> transaction_id]

\* A begin_transaction that does not look for the lock manager and runs its
\* body without one.
begin_transaction_unguarded(s, ia_id, files, caller_pid, transaction_id) ==
    begin_transaction_try(s, ia_id, files, caller_pid, transaction_id)

\* begin_transaction on a coordinator whose _lock_manager is None: RuntimeError
\* is raised before anything is read or written.
begin_transaction_no_lock_manager(s, ia_id, files, caller_pid, transaction_id) ==
    [s |-> s, id |-> 0]

\* ------------------------------------------------------ commit_transaction
\* commit_transaction's except clause: reload the state, mark it failed and
\* keep str(e), which names the step that raised
commit_transaction_except(s, e) ==
    LET state == _load_transaction_state(s) IN
    IF state # NoTx
    THEN _save_transaction_state(s, [state EXCEPT !.phase = "failed", !.error = e])
    ELSE s

\* _cleanup_backup is called on line 724 and defined nowhere in the class:
\* the call raises AttributeError whenever the transaction has a backup.
CleanupBackupRaises(state) == state.backup_id # NoBackupId

\* The body of commit_transaction under the lock: the store it leaves.
\* fault names the step that the environment makes fail: "add"
\* (git add or _validate_file_path), "commit" (git commit), "save" (writing
\* the committed state), or "none".
commit_transaction_try(s, transaction_id, ia_id, fault) ==
    LET state == _load_transaction_state(s) IN
    IF \/ state = NoTx
       \/ state.transaction_id # transaction_id
       \/ state.phase # "prepared"
       \/ state.ia_id # ia_id
    THEN commit_transaction_except(s, "invalid")
    ELSE
    LET s1 == _save_transaction_state(s, [state EXCEPT !.phase = "committing"]) IN
    IF fault = "add"
    THEN commit_transaction_except(s1, "add")
    ELSE
    LET s2 == git_add(s1) IN
    IF fault = "commit" \/ NothingToCommit(s2)
    THEN commit_transaction_except(s2, "commit")
    ELSE
    LET s3 == git_commit(s2) IN
    IF fault = "save"
    THEN commit_transaction_except(s3, "save")
    ELSE
    LET s4 == _save_transaction_state(s3, [s3.tx EXCEPT !.phase = "committed"]) IN
    IF CleanupBackupRaises(state)
    THEN commit_transaction_except(s4, "cleanup")
    ELSE s4

\* -------------------------------------------------------------------- Init
Init ==
    /\ clock = 0
    /\ psutil \in BOOLEAN
    /\ proc = [p \in Pids |-> [st |-> "running", start |-> InitStart]]
    /\ pidOf \in {f \in [Agents -> Pids] : f[1] = 1}
    /\ lockFile = NoLock
    /\ queue = <<>>
    /\ pc = [a \in Agents |-> "idle"]
    /\ mode = [a \in Agents |-> "direct"]
    /\ acquired = [a \in Agents |-> FALSE]
    /\ reent = [a \in Agents |-> FALSE]
    /\ force = [a \in Agents |-> FALSE]
    /\ deadline = [a \in Agents |-> 0]
    /\ wd = [a \in Agents |-> "idle"]
    /\ txFile = NoTx
    /\ backups = [t \in 0..MaxTime |-> NoBackup]
    /\ work = 0
    /\ index = 0
    /\ commits = <<[tree |-> 0, parent |-> 0]>>
    /\ head = 1
    /\ remote = 0
    /\ call = [a \in Agents |-> NoCall]
    /\ nextId = 1
    /\ qpc = [t \in Agents |-> "idle"]
    /\ qInst = [t \in Agents |-> 0]
    /\ qLocal = [t \in Agents |-> <<>>]
    /\ qEnq = [t \in Agents |-> FALSE]
    /\ qSeen = [t \in Agents |-> <<>>]
    /\ lock_file = NoOwnerLock
    /\ _owner_id = [a \in Agents |-> 0]
    /\ uuid4 = 1
    /\ returned = [a \in Agents |-> NoResult]
    /\ sq = <<>>
    /\ queue_file = <<>>
    /\ nextItem = 1
    /\ dpc = [a \in Agents |-> "idle"]
    /\ dLocal = [a \in Agents |-> <<>>]
    /\ handed = [q \in 1..MaxItems |-> 0]
    /\ spc = [a \in Agents |-> "idle"]
    /\ sItem = [a \in Agents |-> 0]
    /\ outcome = [a \in Agents |-> "none"]

\* The instance's process runs, and its watchdog thread is not inside
\* `with self._internal_lock` (a per-instance threading.RLock).
CanEnter(a) == wd[a] = "idle"

\* ----------------------------------------------------------------- acquire
\* acquire_global_lock called directly: start_time = time.time()
CallAcquire(a, timeout) ==
    /\ pc[a] \in {"idle", "held"}
    /\ pc' = [pc EXCEPT ![a] = "loop"]
    /\ mode' = [mode EXCEPT ![a] = "direct"]
    /\ reent' = [reent EXCEPT ![a] = (pc[a] = "held")]
    /\ deadline' = [deadline EXCEPT ![a] = clock + timeout]
    /\ UNCHANGED <<envVars, lockFile, queue, acquired, force, wd>>
    /\ UNCHANGED txVars
    /\ UNCHANGED auxVars

\* lock_context entered: acquired = False, then acquire_global_lock(ia_id,
\* operation_type, ttl) with the default timeout
lock_context(a) ==
    /\ pc[a] = "idle"
    /\ pc' = [pc EXCEPT ![a] = "loop"]
    /\ mode' = [mode EXCEPT ![a] = "ctx"]
    /\ acquired' = [acquired EXCEPT ![a] = FALSE]
    /\ reent' = [reent EXCEPT ![a] = FALSE]
    /\ deadline' = [deadline EXCEPT ![a] = clock + DEFAULT_TIMEOUT]
    /\ UNCHANGED <<envVars, lockFile, queue, force, wd>>

\* a caller other than the coordinator enters a lock_context
EnterContext(a) ==
    /\ lock_context(a)
    /\ UNCHANGED txVars
    /\ UNCHANGED auxVars

\* A loop condition that never fails.
WithinTimeout_forever(now, end) == TRUE

\* while time.time() - start_time < timeout
WithinTimeout(now, end) == now < end

\* One poll of the while loop up to its branch: the loop condition holds, the
\* instance's RLock is taken, the record is read and tested for staleness.
\*   no record                -> go on to write
\*   a stale record           -> go on to _cleanup_stale_lock
\*   a record that is not stale -> time.sleep(0.5), still under the RLock
AcqPoll(a) ==
    /\ pc[a] = "loop"
    /\ WithinTimeout(clock, deadline[a])
    /\ CanEnter(a)
    /\ LET existing_lock == _read_lock_info IN
       pc' = [pc EXCEPT ![a] =
                IF existing_lock = NoLock THEN "write"
                ELSE IF _is_lock_stale(existing_lock) THEN "cleanup"
                ELSE "sleep"]
    /\ UNCHANGED <<envVars, lockFile, queue, mode, acquired, reent, force,
                   deadline, wd>>
    /\ UNCHANGED txVars
    /\ UNCHANGED auxVars

\* the sleep ends; continue
AcqWake(a) ==
    /\ pc[a] = "sleep"
    /\ pc' = [pc EXCEPT ![a] = "loop"]
    /\ UNCHANGED <<envVars, lockFile, queue, mode, acquired, reent, force,
                   deadline, wd>>
    /\ UNCHANGED txVars
    /\ UNCHANGED auxVars

\* _cleanup_stale_lock: unlink whatever record is there now
AcqCleanup(a) ==
    /\ pc[a] = "cleanup"
    /\ lockFile' = NoLock
    /\ pc' = [pc EXCEPT ![a] = "write"]
    /\ UNCHANGED <<envVars, queue, mode, acquired, reent, force, deadline, wd>>
    /\ UNCHANGED txVars
    /\ UNCHANGED auxVars

\* the LockInfo is built and _write_lock_info replaces the file
AcqWrite(a, ttl) ==
    /\ pc[a] = "write"
    /\ LET process_start_time == IF psutil THEN proc[pidOf[a]].start ELSE 0 IN
       lockFile' = LockInfo(a, clock, ttl, pidOf[a], process_start_time)
    /\ pc' = [pc EXCEPT ![a] = "verify"]
    /\ UNCHANGED <<envVars, queue, mode, acquired, reent, force, deadline, wd>>
    /\ UNCHANGED txVars
    /\ UNCHANGED auxVars

\* lock_context after acquire_global_lock returned True: acquired = True; yield
AfterAcquire(m) == IF m = "ctx" THEN "body" ELSE "held"

\* The call returns or raises to the caller: its locals are gone.
Return(a, to) ==
    /\ pc' = [pc EXCEPT ![a] = to]
    /\ mode' = [mode EXCEPT ![a] = "direct"]
    /\ acquired' = [acquired EXCEPT ![a] = FALSE]
    /\ reent' = [reent EXCEPT ![a] = FALSE]
    /\ force' = [force EXCEPT ![a] = FALSE]
    /\ deadline' = [deadline EXCEPT ![a] = 0]

\* time.sleep(0.1); current = _read_lock_info(); holder test on the pid
AcqVerify(a) ==
    /\ pc[a] = "verify"
    /\ LET current == _read_lock_info IN
       IF current # NoLock /\ current.pid = pidOf[a]
       THEN /\ queue' = _remove_from_queue(queue, a)
            /\ IF mode[a] = "ctx"
               THEN /\ pc' = [pc EXCEPT ![a] = AfterAcquire(mode[a])]
                    /\ acquired' = [acquired EXCEPT ![a] = TRUE]
                    /\ deadline' = [deadline EXCEPT ![a] = 0]
                    /\ UNCHANGED <<mode, reent, force>>
               ELSE Return(a, AfterAcquire(mode[a]))
       ELSE /\ pc' = [pc EXCEPT ![a] = "loop"]
            /\ UNCHANGED <<queue, mode, acquired, reent, force, deadline>>
    /\ UNCHANGED <<envVars, lockFile, wd>>
    /\ UNCHANGED txVars
    /\ UNCHANGED auxVars

\* A finally block that never releases.
lock_context_finally_never(was_acquired) == "idle"

\* A finally block that releases whatever the outcome of the acquire was.
lock_context_finally_always(was_acquired) == "release"

\* lock_context's finally block: release only what was acquired
lock_context_finally(was_acquired) == IF was_acquired THEN "release" ELSE "idle"

\* The loop condition fails: _add_to_queue, raise TimeoutError.  Inside a
\* lock_context the finally block runs before the error reaches the caller
\* ("failed"); a caller that held the lock before the call still holds it.
AcqTimeout(a) ==
    /\ pc[a] = "loop"
    /\ ~WithinTimeout(clock, deadline[a])
    /\ queue' = _add_to_queue(queue, a)
    /\ IF mode[a] = "ctx" /\ lock_context_finally(acquired[a]) = "release"
       THEN /\ pc' = [pc EXCEPT ![a] = "release"]
            /\ deadline' = [deadline EXCEPT ![a] = 0]
            /\ UNCHANGED <<mode, acquired, reent, force>>
       ELSE IF reent[a]
       THEN Return(a, "held")
       ELSE /\ pc' = [pc EXCEPT ![a] = "failed"]
            /\ deadline' = [deadline EXCEPT ![a] = 0]
            /\ UNCHANGED <<mode, acquired, reent, force>>
    /\ UNCHANGED <<envVars, lockFile, wd>>
    /\ UNCHANGED txVars
    /\ UNCHANGED auxVars

\* the caller's handler for the TimeoutError ends
Handled(a) ==
    /\ pc[a] = "failed"
    /\ Return(a, "idle")
    /\ call' = [call EXCEPT ![a] = NoCall]
    /\ UNCHANGED <<envVars, lockFile, queue, wd>>
    /\ UNCHANGED <<txFile, backups, gitVars, nextId>>
    /\ UNCHANGED auxVars

\* ----------------------------------------------------------------- release
\* release_global_lock(force) called directly
CallRelease(a, f) ==
    /\ pc[a] \in {"idle", "held"}
    /\ pc' = [pc EXCEPT ![a] = "release"]
    /\ force' = [force EXCEPT ![a] = f]
    /\ UNCHANGED <<envVars, lockFile, queue, mode, acquired, reent, deadline, wd>>
    /\ UNCHANGED txVars
    /\ UNCHANGED auxVars

\* the body of a lock_context ends (normally or by raising): finally
lock_context_exit(a) ==
    /\ pc[a] = "body"
    /\ IF lock_context_finally(acquired[a]) = "release"
       THEN /\ pc' = [pc EXCEPT ![a] = "release"]
            /\ UNCHANGED <<mode, acquired, reent, force, deadline>>
       ELSE Return(a, "idle")
    /\ UNCHANGED <<envVars, lockFile, queue, wd>>

\* the body of a caller other than the coordinator ends
ExitBody(a) ==
    /\ call[a] = NoCall
    /\ lock_context_exit(a)
    /\ UNCHANGED txVars
    /\ UNCHANGED auxVars

\* release_global_lock's holder test: may this caller delete `current`?
MayRelease(current, caller_pid, f) == f \/ current.pid = caller_pid

\* release_global_lock up to its branch: no record ("Intento de liberar lock
\* inexistente"), or a record the caller may not delete -> return False.  A
\* direct caller sees the value ("returned_false"); lock_context's finally
\* drops it.
RelRead(a) ==
    /\ pc[a] = "release"
    /\ CanEnter(a)
    /\ LET current == _read_lock_info IN
       IF current # NoLock /\ MayRelease(current, pidOf[a], force[a])
       THEN /\ pc' = [pc EXCEPT ![a] = "unlink"]
            /\ UNCHANGED <<mode, acquired, reent, force, deadline>>
       ELSE IF mode[a] = "ctx"
       THEN Return(a, "idle")
       ELSE Return(a, "returned_false")
    /\ UNCHANGED <<envVars, lockFile, queue, wd>>
    /\ UNCHANGED txVars
    /\ UNCHANGED auxVars

\* the direct caller goes on after release_global_lock returned False
ReleaseReturned(a) ==
    /\ pc[a] = "returned_false"
    /\ pc' = [pc EXCEPT ![a] = "idle"]
    /\ UNCHANGED <<envVars, lockFile, queue, mode, acquired, reent, force,
                   deadline, wd>>
    /\ UNCHANGED txVars
    /\ UNCHANGED auxVars

\* lock_info_file.unlink(); return True
RelUnlink(a) ==
    /\ pc[a] = "unlink"
    /\ lockFile' = NoLock
    /\ Return(a, "idle")
    /\ UNCHANGED <<envVars, queue, wd>>
    /\ UNCHANGED txVars
    /\ UNCHANGED auxVars

\* ---------------------------------------------------------------- watchdog
\* _watchdog_check up to its branch, under the instance's RLock
InRLock(a) == pc[a] \in {"sleep", "cleanup", "write", "verify", "unlink"}

WdCheck(a) ==
    /\ pc[a] # "crashed"
    /\ wd[a] = "idle"
    /\ ~InRLock(a)
    /\ LET lock_info == _read_lock_info IN
       /\ lock_info # NoLock
       /\ _is_lock_stale(lock_info)
    /\ wd' = [wd EXCEPT ![a] = "cleanup"]
    /\ UNCHANGED <<envVars, lockFile, queue, pc, mode, acquired, reent, force,
                   deadline>>
    /\ UNCHANGED txVars
    /\ UNCHANGED auxVars

\* _cleanup_stale_lock called by the watchdog
WdCleanup(a) ==
    /\ wd[a] = "cleanup"
    /\ lockFile' = NoLock
    /\ wd' = [wd EXCEPT ![a] = "idle"]
    /\ UNCHANGED <<envVars, queue, pc, mode, acquired, reent, force, deadline>>
    /\ UNCHANGED txVars
    /\ UNCHANGED auxVars

\* ------------------------------------------------------------- environment
Tick ==
    /\ clock < MaxTime
    /\ clock' = clock + 1
    /\ UNCHANGED <<psutil, proc, pidOf, lockVars>>
    /\ UNCHANGED txVars
    /\ UNCHANGED auxVars

\* A process that hosts an instance dies: its threads stop where they are.
\* The pid stays in the process table as a zombie until it is reaped, or goes
\* at once.
Crash(p, s) ==
    /\ proc[p].st = "running"
    /\ proc[p].start = InitStart
    /\ \E a \in Agents : pidOf[a] = p
    /\ proc' = [proc EXCEPT ![p].st = s]
    /\ pc' = [a \in Agents |-> IF pidOf[a] = p THEN "crashed" ELSE pc[a]]
    /\ wd' = [a \in Agents |-> IF pidOf[a] = p THEN "idle" ELSE wd[a]]
    /\ mode' = [a \in Agents |-> IF pidOf[a] = p THEN "direct" ELSE mode[a]]
    /\ acquired' = [a \in Agents |-> IF pidOf[a] = p THEN FALSE ELSE acquired[a]]
    /\ reent' = [a \in Agents |-> IF pidOf[a] = p THEN FALSE ELSE reent[a]]
    /\ force' = [a \in Agents |-> IF pidOf[a] = p THEN FALSE ELSE force[a]]
    /\ deadline' = [a \in Agents |-> IF pidOf[a] = p THEN 0 ELSE deadline[a]]
    /\ call' = [a \in Agents |-> IF pidOf[a] = p THEN NoCall ELSE call[a]]
    /\ UNCHANGED <<clock, psutil, pidOf, lockFile, queue>>
    /\ UNCHANGED <<txFile, backups, gitVars, nextId>>
    /\ UNCHANGED auxVars
Reap(p) ==
    /\ proc[p].st = "zombie"
    /\ proc' = [proc EXCEPT ![p].st = "gone"]
    /\ UNCHANGED <<clock, psutil, pidOf, lockVars>>
    /\ UNCHANGED txVars
    /\ UNCHANGED auxVars

\* The operating system gives a free pid to an unrelated new process.
ReusePid(p, start) ==
    /\ proc[p].st = "gone"
    /\ proc[p].start = InitStart
    /\ proc' = [proc EXCEPT ![p] = [st |-> "running", start |-> start]]
    /\ UNCHANGED <<clock, psutil, pidOf, lockVars>>
    /\ UNCHANGED txVars
    /\ UNCHANGED auxVars
\* ------------------------------------------------------------- coordinator
\* the handlers' writes to the transaction file, the backups and the repository
Put(s) ==
    /\ txFile' = s.tx
    /\ backups' = s.bk
    /\ work' = s.work
    /\ index' = s.index
    /\ commits' = s.commits
    /\ head' = s.head

\* begin_transaction(description, ia_id, files) is called on a coordinator
\* that was built with a LockManager (lock_manager) or without one.  With
\* one it enters lock_context(ia_id, "begin_transaction"); without one the
\* RuntimeError reaches the caller.
begin_transaction_call(a, files, lock_manager) ==
    /\ IF lock_manager
       THEN /\ lock_context(a)
            /\ call' = [call EXCEPT ![a] =
                  [op |-> "begin", transaction_id |-> 0, files |-> files]]
            /\ UNCHANGED <<txFile, backups, gitVars, nextId>>
       ELSE /\ pc[a] = "idle"
            /\ pc' = [pc EXCEPT ![a] = "failed"]
            /\ LET r == begin_transaction_no_lock_manager(
                            Store, a, files, pidOf[a], nextId) IN
               /\ Put(r.s)
               /\ nextId' = IF r.id # 0 THEN nextId + 1 ELSE nextId
            /\ UNCHANGED <<envVars, lockFile, queue, mode, acquired, reent,
                           force, deadline, wd, remote, call>>
    /\ UNCHANGED auxVars

\* begin_transaction, for the first MaxTx transactions
begin_transaction(a, files, lock_manager) ==
    /\ nextId <= MaxTx
    /\ begin_transaction_call(a, files, lock_manager)

\* the with-block of begin_transaction, and lock_context's finally
begin_transaction_body(a) ==
    /\ call[a].op = "begin"
    /\ lock_context_exit(a)
    /\ LET r == begin_transaction_try(Store, a, call[a].files, pidOf[a], nextId) IN
       /\ Put(r.s)
       /\ nextId' = IF r.id # 0 THEN nextId + 1 ELSE nextId
    /\ call' = [call EXCEPT ![a] = NoCall]
    /\ UNCHANGED remote
    /\ UNCHANGED auxVars

\* commit_transaction(transaction_id, ia_id) is called: it enters
\* lock_context(ia_id, "commit_transaction")
commit_transaction(a, transaction_id) ==
    /\ Len(commits) < MaxCommits
    /\ lock_context(a)
    /\ call' = [call EXCEPT ![a] =
                  [op |-> "commit", transaction_id |-> transaction_id,
                   files |-> "none"]]
    /\ UNCHANGED <<txFile, backups, gitVars, nextId>>
    /\ UNCHANGED auxVars

\* the with-block of commit_transaction, and lock_context's finally
commit_transaction_body(a, fault) ==
    /\ call[a].op = "commit"
    /\ lock_context_exit(a)
    /\ Put(commit_transaction_try(Store, call[a].transaction_id, a, fault))
    /\ call' = [call EXCEPT ![a] = NoCall]
    /\ UNCHANGED <<remote, nextId>>
    /\ UNCHANGED auxVars

\* rollback(transaction_id) called by an idle instance; it takes no lock
CallRollback(a, transaction_id) ==
    /\ pc[a] = "idle"
    /\ Len(commits) < MaxCommits
    /\ Put(rollback(Store, transaction_id).s)
    /\ UNCHANGED <<envVars, lockVars, remote, call, nextId>>
    /\ UNCHANGED auxVars

\* an agent writes the tracked file
EditFile(c) ==
    /\ c # work
    /\ work' = c
    /\ UNCHANGED <<envVars, lockVars, txFile, backups, index, commits, head,
                   remote, call, nextId>>
    /\ UNCHANGED auxVars

\* git push
Push ==
    /\ remote # head
    /\ remote' = head
    /\ UNCHANGED <<envVars, lockVars, txFile, backups, work, index, commits,
                   head, call, nextId>>
    /\ UNCHANGED auxVars

\* a backup directory is deleted from outside the coordinator
RemoveBackup(t) ==
    /\ backups[t] # NoBackup
    /\ backups' = [backups EXCEPT ![t] = NoBackup]
    /\ UNCHANGED <<envVars, lockVars, txFile, gitVars, call, nextId>>
    /\ UNCHANGED auxVars

\* ------------------------------------------------ queue calls by threads
\* The LockManager objects of the server process: get_lock_manager builds
\* one per request.
Instances == 1..NumAgents

\* `with self._queue_mutex` of instance i can be entered by thread t: no
\* other thread is inside it.  The RLock belongs to the instance.
QueueMutexFree(i, t) ==
    \A u \in Agents : u # t => ~(qpc[u] # "idle" /\ qInst[u] = i)

\* _add_to_queue(ia_id) on instance i up to its write: the mutex is taken
\* and queue = self._read_queue()
AddRead(t, i) ==
    /\ qpc[t] = "idle"
    /\ QueueMutexFree(i, t)
    /\ qpc' = [qpc EXCEPT ![t] = "add"]
    /\ qInst' = [qInst EXCEPT ![t] = i]
    /\ qLocal' = [qLocal EXCEPT ![t] = queue]
    /\ UNCHANGED <<qEnq, qSeen, queue>>
    /\ UNCHANGED <<envVars, lockFile, pc, mode, acquired, reent, force,
                   deadline, wd>>
    /\ UNCHANGED <<txVars, ownerVars, sortVars, itemVars>>

\* the rest of _add_to_queue: return if the agent is in the list that was
\* read, else append, sort and _write_queue; the mutex is released
AddWrite(t) ==
    /\ qpc[t] = "add"
    /\ LET new == _add_to_queue(qLocal[t], t) IN
       queue' = IF new = qLocal[t] THEN queue ELSE new
    /\ qpc' = [qpc EXCEPT ![t] = "idle"]
    /\ qInst' = [qInst EXCEPT ![t] = 0]
    /\ qLocal' = [qLocal EXCEPT ![t] = <<>>]
    /\ qEnq' = [qEnq EXCEPT ![t] = TRUE]
    /\ UNCHANGED qSeen
    /\ UNCHANGED <<envVars, lockFile, pc, mode, acquired, reent, force,
                   deadline, wd>>
    /\ UNCHANGED <<txVars, ownerVars, sortVars, itemVars>>

\* _remove_from_queue(ia_id) on instance i up to its write
RemoveRead(t, i) ==
    /\ qpc[t] = "idle"
    /\ QueueMutexFree(i, t)
    /\ qpc' = [qpc EXCEPT ![t] = "remove"]
    /\ qInst' = [qInst EXCEPT ![t] = i]
    /\ qLocal' = [qLocal EXCEPT ![t] = queue]
    /\ UNCHANGED <<qEnq, qSeen, queue>>
    /\ UNCHANGED <<envVars, lockFile, pc, mode, acquired, reent, force,
                   deadline, wd>>
    /\ UNCHANGED <<txVars, ownerVars, sortVars, itemVars>>

\* the rest of _remove_from_queue: _write_queue only if an entry was dropped
RemoveWrite(t) ==
    /\ qpc[t] = "remove"
    /\ LET filtered == _remove_from_queue(qLocal[t], t) IN
       queue' = IF Len(filtered) < Len(qLocal[t]) THEN filtered ELSE queue
    /\ qpc' = [qpc EXCEPT ![t] = "idle"]
    /\ qInst' = [qInst EXCEPT ![t] = 0]
    /\ qLocal' = [qLocal EXCEPT ![t] = <<>>]
    /\ qEnq' = [qEnq EXCEPT ![t] = FALSE]
    /\ UNCHANGED qSeen
    /\ UNCHANGED <<envVars, lockFile, pc, mode, acquired, reent, force,
                   deadline, wd>>
    /\ UNCHANGED <<txVars, ownerVars, sortVars, itemVars>>

\* get_queue_status() on instance i: one read under the instance's mutex
get_queue_status(t, i) ==
    /\ qpc[t] = "idle"
    /\ QueueMutexFree(i, t)
    /\ qSeen' = [qSeen EXCEPT ![t] = queue]
    /\ UNCHANGED <<qpc, qInst, qLocal, qEnq, queue>>
    /\ UNCHANGED <<envVars, lockFile, pc, mode, acquired, reent, force,
                   deadline, wd>>
    /\ UNCHANGED <<txVars, ownerVars, sortVars, itemVars>>

\* ------------------------------------------- the order of the wait queue
\* _add_to_queue(ia_id, operation_type, priority), as one step
Insert(ia, priority) ==
    /\ sq' = _add_to_queue_priority(sq, ia, priority, clock)
    /\ UNCHANGED <<envVars, lockVars, txVars, queueVars, ownerVars, itemVars>>

\* _remove_from_queue(ia_id), as one step
Remove(ia) ==
    /\ InQueue(sq, ia)
    /\ sq' = _remove_from_queue(sq, ia)
    /\ UNCHANGED <<envVars, lockVars, txVars, queueVars, ownerVars, itemVars>>

\* -------------------------------------- calls of the owner-token revision
\* acquire_global_lock: the pass through the critical section that ends the
\* call.  Under _mutex: a record of this instance's token and pid is renewed;
\* no record, an expired record or one whose pid is gone is replaced by a
\* record with a new token, which then becomes self._owner_id; otherwise the
\* lock is busy and the call ends in TimeoutError.
acquire_global_lock_pass(a) ==
    /\ LET current_lock == _read_lock IN
       IF /\ current_lock # NoOwnerLock
          /\ _owner_id[a] # 0
          /\ current_lock.owner_id = _owner_id[a]
          /\ current_lock.pid = pidOf[a]
       THEN /\ lock_file' = [current_lock EXCEPT
                                !.expires_at = clock + ttl_seconds[a]]
            /\ returned' = [returned EXCEPT ![a] = Result("acquire", TRUE, @)]
            /\ UNCHANGED <<_owner_id, uuid4>>
       ELSE IF \/ current_lock = NoOwnerLock
               \/ is_expired(current_lock)
               \/ proc[current_lock.pid].st = "gone"
       THEN /\ lock_file' = [owner_id |-> uuid4, ia_id |-> a, pid |-> pidOf[a],
                             acquired_at |-> clock,
                             expires_at |-> clock + ttl_seconds[a]]
            /\ _owner_id' = [_owner_id EXCEPT ![a] = uuid4]
            /\ uuid4' = uuid4 + 1
            /\ returned' = [returned EXCEPT ![a] = Result("acquire", TRUE, @)]
       ELSE /\ returned' = [returned EXCEPT ![a] = Result("acquire", FALSE, @)]
            /\ UNCHANGED <<lock_file, _owner_id, uuid4>>

\* acquire_global_lock called on its own by an instance that is in no call
acquire_global_lock(a) ==
    /\ pc[a] = "idle"
    /\ uuid4 <= MaxOwners
    /\ acquire_global_lock_pass(a)
    /\ UNCHANGED <<envVars, lockVars, txVars, queueVars, sortVars, itemVars>>

\* release_global_lock(force), under _mutex: no record -> True; a record of
\* another token, without force and with a token of one's own -> False;
\* otherwise the file is unlinked -> True
release_global_lock_pass(a, f) ==
    /\ LET current_lock == _read_lock IN
       IF current_lock = NoOwnerLock
       THEN /\ _owner_id' = [_owner_id EXCEPT ![a] = 0]
            /\ returned' = [returned EXCEPT ![a] = Result("release", TRUE, @)]
            /\ UNCHANGED lock_file
       ELSE IF ~f /\ _owner_id[a] # 0 /\ current_lock.owner_id # _owner_id[a]
       THEN /\ returned' = [returned EXCEPT ![a] = Result("release", FALSE, @)]
            /\ UNCHANGED <<lock_file, _owner_id>>
       ELSE /\ lock_file' = NoOwnerLock
            /\ _owner_id' = [_owner_id EXCEPT ![a] = 0]
            /\ returned' = [returned EXCEPT ![a] = Result("release", TRUE, @)]
    /\ UNCHANGED uuid4

\* release_global_lock called on its own by an instance that is in no call
release_global_lock(a, f) ==
    /\ pc[a] = "idle"
    /\ release_global_lock_pass(a, f)
    /\ UNCHANGED <<envVars, lockVars, txVars, queueVars, sortVars, itemVars>>

\* refresh_lock(), under _mutex(timeout=5.0): no record -> False; a record
\* of another token -> False; else expires_at = now + ttl_seconds and
\* _write_lock -> True.  mutex_busy: the mutex is not had in time, the
\* exception is caught -> False.
refresh_lock(a, mutex_busy) ==
    /\ pc[a] = "idle"
    /\ LET current_lock == _read_lock IN
       IF mutex_busy \/ current_lock = NoOwnerLock
                     \/ ~IsOwner(current_lock, _owner_id[a])
       THEN /\ returned' = [returned EXCEPT ![a] = Result("refresh", FALSE, @)]
            /\ UNCHANGED lock_file
       ELSE /\ lock_file' = [current_lock EXCEPT
                                !.expires_at = clock + ttl_seconds[a]]
            /\ returned' = [returned EXCEPT ![a] = Result("refresh", TRUE, @)]
    /\ UNCHANGED <<envVars, lockVars, txVars, queueVars, sortVars, itemVars,
                   _owner_id, uuid4>>

\* one sweep of _watchdog_loop, under _mutex(timeout=1.0): an expired
\* record, or one whose pid is gone, is unlinked
_watchdog_loop(a) ==
    /\ pc[a] = "idle"
    /\ LET current_lock == _read_lock IN
       /\ current_lock # NoOwnerLock
       /\ is_expired(current_lock) \/ proc[current_lock.pid].st = "gone"
    /\ lock_file' = NoOwnerLock
    /\ UNCHANGED <<envVars, lockVars, txVars, queueVars, sortVars, itemVars,
                   _owner_id, uuid4, returned>>

\* ------------------------------- queue calls of the owner-token revision
\* None of them takes _mutex.
\* enqueue_operation(ia_id, ..., priority=5), as one step: the item gets a
\* new queue_id, is appended, the list is sorted and saved
enqueue_operation(a) ==
    /\ nextItem <= MaxItems
    /\ queue_file' = sort_priority_enqueued_at(
                        Append(queue_file,
                               QueueItem(nextItem, a, QUEUE_PRIORITY, clock)))
    /\ nextItem' = nextItem + 1

\* enqueue_operation called on its own
Enqueue(a) ==
    /\ spc[a] = "idle"
    /\ enqueue_operation(a)
    /\ UNCHANGED <<dpc, dLocal, handed, spc, sItem, outcome>>
    /\ UNCHANGED <<envVars, lockVars, txVars, queueVars, sortVars, ownerVars>>

\* dequeue_operation up to its write: queue = self._load_queue()
DequeueRead(a) ==
    /\ dpc[a] = "idle"
    /\ dpc' = [dpc EXCEPT ![a] = "dequeue"]
    /\ dLocal' = [dLocal EXCEPT ![a] = queue_file]
    /\ UNCHANGED <<queue_file, nextItem, handed, spc, sItem, outcome>>
    /\ UNCHANGED <<envVars, lockVars, txVars, queueVars, sortVars, ownerVars>>

\* the rest of dequeue_operation: the first item of the list that was read
\* whose status is "pending" is set to "processing", the list is saved and
\* the item returned; with no such item nothing is saved and None returned
DequeueWrite(a) ==
    /\ dpc[a] = "dequeue"
    /\ LET i == FirstPending(dLocal[a]) IN
       IF i = 0
       THEN UNCHANGED <<queue_file, handed>>
       ELSE /\ queue_file' = [dLocal[a] EXCEPT ![i].status = "processing"]
            /\ handed' = [handed EXCEPT ![dLocal[a][i].queue_id] = @ + 1]
    /\ dpc' = [dpc EXCEPT ![a] = "idle"]
    /\ dLocal' = [dLocal EXCEPT ![a] = <<>>]
    /\ UNCHANGED <<nextItem, spc, sItem, outcome>>
    /\ UNCHANGED <<envVars, lockVars, txVars, queueVars, sortVars, ownerVars>>

\* submit_operation is called: queue_id = self.enqueue_operation(...)
submit_operation(a) ==
    /\ spc[a] = "idle"
    /\ enqueue_operation(a)
    /\ spc' = [spc EXCEPT ![a] = "enqueued"]
    /\ sItem' = [sItem EXCEPT ![a] = nextItem]
    /\ outcome' = [outcome EXCEPT ![a] = "none"]
    /\ UNCHANGED <<dpc, dLocal, handed>>
    /\ UNCHANGED <<envVars, lockVars, txVars, queueVars, sortVars, ownerVars>>

\* `with self.lock_context(ia_id, operation_type)`: acquire_global_lock
\* returns True and the body starts, or it raises TimeoutError
SubmitAcquire(a) ==
    /\ spc[a] = "enqueued"
    /\ uuid4 <= MaxOwners
    /\ acquire_global_lock_pass(a)
    /\ spc' = [spc EXCEPT ![a] = IF returned'[a].ok THEN "body"
                                 ELSE "finally_timeout"]
    /\ UNCHANGED <<queue_file, nextItem, dpc, dLocal, handed, sItem, outcome>>
    /\ UNCHANGED <<envVars, lockVars, txVars, queueVars, sortVars>>

\* the body of the with: complete_operation(queue_id, success=True), and
\* the return statement is reached
SubmitBody(a) ==
    /\ spc[a] = "body"
    /\ queue_file' = complete_operation(queue_file, sItem[a], TRUE)
    /\ spc' = [spc EXCEPT ![a] = "finally_ok"]
    /\ UNCHANGED <<nextItem, dpc, dLocal, handed, sItem, outcome>>
    /\ UNCHANGED <<envVars, lockVars, txVars, queueVars, sortVars, ownerVars>>

\* lock_context's finally: self.release_global_lock(), whether the acquire
\* had succeeded or not.  After the body the SUCCESS mapping is returned;
\* after a TimeoutError the error goes on to submit_operation's handler.
SubmitFinally(a) ==
    /\ spc[a] \in {"finally_ok", "finally_timeout"}
    /\ release_global_lock_pass(a, FALSE)
    /\ IF spc[a] = "finally_ok"
       THEN /\ spc' = [spc EXCEPT ![a] = "idle"]
            /\ outcome' = [outcome EXCEPT ![a] = "SUCCESS"]
       ELSE /\ spc' = [spc EXCEPT ![a] = "except"]
            /\ UNCHANGED outcome
    /\ UNCHANGED <<queue_file, nextItem, dpc, dLocal, handed, sItem>>
    /\ UNCHANGED <<envVars, lockVars, txVars, queueVars, sortVars>>

\* except TimeoutError: complete_operation(queue_id, success=False) and the
\* TIMEOUT mapping is returned
SubmitExcept(a) ==
    /\ spc[a] = "except"
    /\ queue_file' = complete_operation(queue_file, sItem[a], FALSE)
    /\ spc' = [spc EXCEPT ![a] = "idle"]
    /\ outcome' = [outcome EXCEPT ![a] = "TIMEOUT"]
    /\ UNCHANGED <<nextItem, dpc, dLocal, handed, sItem>>
    /\ UNCHANGED <<envVars, lockVars, txVars, queueVars, sortVars, ownerVars>>

Next ==
    \/ \E a \in Agents, t \in 1..MaxTimeout : CallAcquire(a, t)
    \/ \E a \in Agents : EnterContext(a)
    \/ \E a \in Agents : AcqPoll(a)
    \/ \E a \in Agents : AcqWake(a)
    \/ \E a \in Agents : AcqCleanup(a)
    \/ \E a \in Agents, ttl \in 1..MaxTTL : AcqWrite(a, ttl)
    \/ \E a \in Agents : AcqVerify(a)
    \/ \E a \in Agents : AcqTimeout(a)
    \/ \E a \in Agents : Handled(a)
    \/ \E a \in Agents, f \in BOOLEAN : CallRelease(a, f)
    \/ \E a \in Agents : ExitBody(a)
    \/ \E a \in Agents : RelRead(a)
    \/ \E a \in Agents : RelUnlink(a)
    \/ \E a \in Agents : ReleaseReturned(a)
    \/ \E a \in Agents : WdCheck(a)
    \/ \E a \in Agents : WdCleanup(a)
    \/ Tick
    \/ \E p \in Pids, s \in {"zombie", "gone"} : Crash(p, s)
    \/ \E p \in Pids : Reap(p)
    \/ \E p \in Pids, d \in {1, 2} : ReusePid(p, InitStart + d)

Spec == Init /\ [][Next]_vars

\* The coordinator driven through its API by the agents, which all live in
\* the server process, as the instances that app.py builds per request do.
\* The process stays alive and the coordinator's lock scopes take the default
\* TTL, so no record turns stale here and PSUTIL_AVAILABLE decides nothing.
InitTx == Init /\ psutil = FALSE /\ \A a \in Agents : pidOf[a] = 1

Faults == {"none", "add", "commit", "save"}

NextTx ==
    \/ \E a \in Agents, files \in {"none", "inside"} :
            begin_transaction(a, files, TRUE)
    \/ \E a \in Agents : begin_transaction_body(a)
    \/ \E a \in Agents, t \in 1..MaxTx : commit_transaction(a, t)
    \/ \E a \in Agents, fault \in Faults : commit_transaction_body(a, fault)
    \/ \E a \in Agents, t \in 0..MaxTx : CallRollback(a, t)
    \/ \E c \in Contents : EditFile(c)
    \/ Push
    \/ \E a \in Agents : AcqPoll(a)
    \/ \E a \in Agents : AcqWake(a)
    \/ \E a \in Agents : AcqWrite(a, DEFAULT_TTL)
    \/ \E a \in Agents : AcqVerify(a)
    \/ \E a \in Agents : AcqTimeout(a)
    \/ \E a \in Agents : Handled(a)
    \/ \E a \in Agents : RelRead(a)
    \/ \E a \in Agents : RelUnlink(a)
    \/ Tick

SpecTx == InitTx /\ [][NextTx]_vars

\* begin_transaction called by agents that live in processes of their own,
\* on coordinators built with and without a LockManager, with every kind of
\* files argument, while processes die.
InitBegin == Init /\ pidOf = [a \in Agents |-> a]

NextBegin ==
    \/ \E a \in Agents, files \in Paths, lock_manager \in BOOLEAN :
            begin_transaction(a, files, lock_manager)
    \/ \E a \in Agents : begin_transaction_body(a)
    \/ \E c \in Contents : EditFile(c)
    \/ \E a \in Agents : AcqPoll(a)
    \/ \E a \in Agents : AcqWake(a)
    \/ \E a \in Agents : AcqCleanup(a)
    \/ \E a \in Agents : AcqWrite(a, DEFAULT_TTL)
    \/ \E a \in Agents : AcqVerify(a)
    \/ \E a \in Agents : AcqTimeout(a)
    \/ \E a \in Agents : Handled(a)
    \/ \E a \in Agents : RelRead(a)
    \/ \E a \in Agents : RelUnlink(a)
    \/ Tick
    \/ \E p \in Pids, s \in {"zombie", "gone"} : Crash(p, s)
    \/ \E p \in Pids : Reap(p)

SpecBegin == InitBegin /\ [][NextBegin]_vars

\* One agent takes a transaction with a backup through begin and commit
\* while the backup directory can disappear, and either agent calls rollback.
NextRollback ==
    \/ begin_transaction(1, "inside", TRUE)
    \/ begin_transaction_body(1)
    \/ commit_transaction(1, 1)
    \/ \E fault \in Faults : commit_transaction_body(1, fault)
    \/ \E a \in Agents, t \in 0..MaxTx : CallRollback(a, t)
    \/ \E t \in 0..MaxTime : RemoveBackup(t)
    \/ \E c \in Contents : EditFile(c)
    \/ Push
    \/ AcqPoll(1)
    \/ AcqWrite(1, DEFAULT_TTL)
    \/ AcqVerify(1)
    \/ RelRead(1)
    \/ RelUnlink(1)
    \/ Tick

SpecRollback == InitTx /\ [][NextRollback]_vars

\* One agent runs transactions one after the other, up to MaxSeq of them,
\* with and without files, with commits that fail, and calls rollback or
\* not, while the file is edited.
NextSeq ==
    \/ \E files \in {"none", "inside"} :
          nextId <= MaxSeq /\ begin_transaction_call(1, files, TRUE)
    \/ begin_transaction_body(1)
    \/ \E t \in 1..MaxSeq : commit_transaction(1, t)
    \/ \E fault \in Faults : commit_transaction_body(1, fault)
    \/ \E t \in 0..MaxSeq : CallRollback(1, t)
    \/ \E c \in Contents : EditFile(c)
    \/ AcqPoll(1)
    \/ AcqWrite(1, DEFAULT_TTL)
    \/ AcqVerify(1)
    \/ RelRead(1)
    \/ RelUnlink(1)
    \/ Tick

SpecSeq == InitTx /\ [][NextSeq]_vars

\* The lock manager with time passing and every started call running on:
\* the clock keeps advancing, the thread inside acquire_global_lock takes its
\* next step whenever it can, and a watchdog that has taken the instance's
\* RLock finishes its sweep.  Callers need never release, and processes may
\* die.  Timeouts are those whose deadline lies within the modelled time.
AcquireStep(a) ==
    \/ AcqPoll(a)
    \/ AcqWake(a)
    \/ AcqCleanup(a)
    \/ \E ttl \in 1..MaxTTL : AcqWrite(a, ttl)
    \/ AcqVerify(a)
    \/ AcqTimeout(a)

NextLive ==
    \/ \E a \in Agents, t \in 1..MaxTimeout :
            clock + t <= MaxTime /\ CallAcquire(a, t)
    \/ \E a \in Agents : AcquireStep(a)
    \/ \E a \in Agents : Handled(a)
    \/ \E a \in Agents : CallRelease(a, FALSE)
    \/ \E a \in Agents : RelRead(a)
    \/ \E a \in Agents : RelUnlink(a)
    \/ \E a \in Agents : ReleaseReturned(a)
    \/ \E a \in Agents : WdCheck(a)
    \/ \E a \in Agents : WdCleanup(a)
    \/ Tick
    \/ \E p \in Pids : Crash(p, "gone")

SpecLive ==
    /\ InitBegin
    /\ [][NextLive]_vars
    /\ WF_vars(Tick)
    /\ \A a \in Agents : WF_vars(AcquireStep(a)) /\ WF_vars(WdCleanup(a))

\* Agents in processes of their own call begin_transaction again and again
\* and nobody commits or rolls back; no process dies.  Every agent keeps
\* calling, every started call runs on, and the clock keeps advancing.
BeginAgain(a) ==
    \/ \E files \in {"none", "inside"} :
          nextId <= MaxSeq /\ begin_transaction_call(a, files, TRUE)
    \/ begin_transaction_body(a)
    \/ AcqPoll(a)
    \/ AcqWake(a)
    \/ AcqWrite(a, DEFAULT_TTL)
    \/ AcqVerify(a)
    \/ AcqTimeout(a)
    \/ Handled(a)
    \/ RelRead(a)
    \/ RelUnlink(a)

NextAbandon ==
    \/ \E a \in Agents : BeginAgain(a)
    \/ Tick

SpecAbandon ==
    /\ InitBegin
    /\ [][NextAbandon]_vars
    /\ WF_vars(Tick)
    /\ \A a \in Agents : WF_vars(BeginAgain(a))

\* Threads of the server process call the queue operations, each for its
\* own agent and each on a LockManager of its choice.
NextQueue ==
    \/ \E t \in Agents, i \in Instances : AddRead(t, i)
    \/ \E t \in Agents : AddWrite(t)
    \/ \E t \in Agents, i \in Instances : RemoveRead(t, i)
    \/ \E t \in Agents : RemoveWrite(t)
    \/ \E t \in Agents, i \in Instances : get_queue_status(t, i)

SpecQueue == InitTx /\ [][NextQueue]_vars

\* Agents enter and leave the wait queue with priorities of their choice
\* while time passes.
NextInsert ==
    \/ \E ia \in 1..MaxQueue, priority \in 0..MaxPriority : Insert(ia, priority)
    \/ \E ia \in 1..MaxQueue : Remove(ia)
    \/ Tick

SpecInsert == InitTx /\ [][NextInsert]_vars

\* Callers enqueue items and call dequeue_operation, each call's read and
\* write being steps of their own.
NextDequeue ==
    \/ \E a \in Agents : Enqueue(a)
    \/ \E a \in Agents : DequeueRead(a)
    \/ \E a \in Agents : DequeueWrite(a)
    \/ Tick

SpecDequeue == InitBegin /\ [][NextDequeue]_vars

\* Instances of the owner-token revision in processes of their own call
\* submit_operation, or acquire and release the lock themselves, while time
\* passes.
NextSubmit ==
    \/ \E a \in Agents : submit_operation(a)
    \/ \E a \in Agents : SubmitAcquire(a)
    \/ \E a \in Agents : SubmitBody(a)
    \/ \E a \in Agents : SubmitFinally(a)
    \/ \E a \in Agents : SubmitExcept(a)
    \/ \E a \in Agents : spc[a] = "idle" /\ acquire_global_lock(a)
    \/ \E a \in Agents : spc[a] = "idle" /\ release_global_lock(a, FALSE)
    \/ Tick

SpecSubmit == InitBegin /\ [][NextSubmit]_vars

\* Instances of the owner-token revision in processes of their own, while
\* time passes and processes die.
NextOwner ==
    \/ \E a \in Agents : acquire_global_lock(a)
    \/ \E a \in Agents, f \in BOOLEAN : release_global_lock(a, f)
    \/ \E a \in Agents, mutex_busy \in BOOLEAN : refresh_lock(a, mutex_busy)
    \/ \E a \in Agents : _watchdog_loop(a)
    \/ Tick
    \/ \E p \in Pids : Crash(p, "gone")

SpecOwner == InitBegin /\ [][NextOwner]_vars

\* ============================================================ lock claims
\* The instance is between a successful acquire and its matching release: a
\* direct caller that got True, the body of a lock_context, or a holder that
\* is inside a further acquire call.
Holds(a) ==
    \/ pc[a] \in {"held", "body"}
    \/ reent[a] /\ pc[a] \in {"loop", "sleep", "cleanup", "write", "verify"}

Expired(lock_info) == clock > lock_info.acquired_at + lock_info.ttl_seconds

\* C1: whatever the interleaving of concurrent acquire calls by distinct
\* agents, in one process or in several, at most one agent holds the lock at
\* any instant.
MutualExclusion ==
    \A a, b \in Agents : a # b => ~(Holds(a) /\ Holds(b))

\* C2: when the acquire inside lock_context times out, the helper leaves
\* without invoking release: the timeout step hands the error to the caller
\* with the lock record exactly as it was, and the helper is never inside
\* release_global_lock without having acquired.
FailedAcquireNeverReleases ==
    /\ [](\A a \in Agents :
            mode[a] = "ctx" /\ pc[a] \in {"release", "unlink"} => acquired[a])
    /\ [][\A a \in Agents :
            (/\ mode[a] = "ctx" /\ pc[a] = "loop" /\ clock >= deadline[a]
             /\ pc'[a] \notin {"loop", "crashed"})
            => pc'[a] = "failed" /\ lockFile' = lockFile]_vars

\* C2 witness: a lock_context has raised the timeout to its caller while
\* another agent holds the lock and that agent's record is in the file.
TimedOutContextBesideHolder ==
    \E a, b \in Agents :
        /\ a # b
        /\ pc[a] = "failed" /\ mode[a] = "ctx"
        /\ pc[b] \in {"held", "body"}
        /\ lockFile # NoLock /\ lockFile.ia_id = b

\* C3: release() without force, called by an agent that is not the owner
\* named in the record, never deletes the record: it returns false and the
\* record stays.
NoForeignRelease ==
    [][\A a \in Agents :
        (lockFile # NoLock /\ lockFile.ia_id # a /\ ~force[a])
        => /\ ~(pc[a] = "release" /\ pc'[a] = "unlink")
           /\ ~(pc[a] = "unlink" /\ pc'[a] = "idle" /\ lockFile' = NoLock)]_vars

\* C4: over every interleaving of acquire, release, TTL expiry, stale
\* reclamation and the watchdog, at most one agent is inside a lock-protected
\* section.
SingleMutator ==
    Cardinality({a \in Agents : pc[a] = "body"}) <= 1

\* C9 as stated: when the process of the agent named in the record has died,
\* or the record's TTL has expired, a polling acquire never waits on the
\* record: it treats it as stale.
CrashRecovery ==
    [][\A b \in Agents :
        (pc[b] = "loop" /\ pc'[b] = "sleep")
        => ~(/\ lockFile # NoLock
             /\ \/ Expired(lockFile)
                \/ pc[lockFile.ia_id] = "crashed")]_vars

\* What the liveness test can see of a dead holder: the pid is gone; or, with
\* psutil, the pid is a zombie or belongs to a process whose creation time is
\* more than the tolerance away from the recorded one.
DeathVisible(lock_info) ==
    \/ proc[lock_info.pid].st = "gone"
    \/ /\ psutil
       /\ \/ proc[lock_info.pid].st = "zombie"
          \/ /\ lock_info.process_start_time > 0
             /\ Abs(proc[lock_info.pid].start - lock_info.process_start_time)
                    > START_TOLERANCE

\* C9 amended: when the record's TTL has expired, or the holder's death is
\* visible to the liveness test, a polling acquire never waits on the record:
\* it treats it as stale and goes on to reclaim it, watchdog or no watchdog.
CrashRecoveryVisible ==
    [][\A b \in Agents :
        (pc[b] = "loop" /\ pc'[b] = "sleep")
        => ~(/\ lockFile # NoLock
             /\ \/ Expired(lockFile)
                \/ DeathVisible(lockFile))]_vars

\* C9 witness: an acquire has found the unexpired record of a crashed holder
\* stale and is about to unlink it, and no watchdog has stepped in.
ReclaimAfterCrash ==
    \E a, b \in Agents :
        /\ pc[a] = "crashed" /\ pc[b] = "cleanup"
        /\ lockFile # NoLock /\ lockFile.ia_id = a
        /\ ~Expired(lockFile)
        /\ \A c \in Agents : wd[c] = "idle"

\* C10: when an agent that holds a lock that is not stale calls acquire again,
\* the call succeeds at once: its poll of its own record returns success,
\* the record stays the agent's own and its expiry does not move back.
ReentrantRenewal ==
    [][\A a \in Agents :
        (/\ reent[a] /\ pc[a] = "loop" /\ clock < deadline[a]
         /\ lockFile # NoLock /\ lockFile.ia_id = a /\ lockFile.pid = pidOf[a]
         /\ ~_is_lock_stale(lockFile)
         /\ pc'[a] \notin {"loop", "crashed"})
        => /\ pc'[a] = "held"
           /\ lockFile'.ia_id = a
           /\ lockFile'.acquired_at + lockFile'.ttl_seconds
                >= lockFile.acquired_at + lockFile.ttl_seconds]_vars

\* C11: a poll of acquire that finds a record whose TTL has expired never
\* waits on it, whether or not the recorded holder's process is alive: it
\* goes on to unlink the record and to write its own in its place, and when
\* its own record is the one in the file the acquire succeeds.
TTLStaleness ==
    /\ [][\A a \in Agents :
            (/\ pc[a] = "loop" /\ clock < deadline[a]
             /\ pc'[a] \notin {"loop", "crashed"}
             /\ lockFile # NoLock /\ Expired(lockFile))
            => pc'[a] = "cleanup"]_vars
    /\ [][\A a \in Agents :
            (pc[a] = "cleanup" /\ pc'[a] = "write") => lockFile' = NoLock]_vars
    /\ [][\A a \in Agents :
            (pc[a] = "write" /\ pc'[a] = "verify")
            => lockFile'.ia_id = a /\ lockFile'.acquired_at = clock]_vars
    /\ [][\A a \in Agents :
            (/\ pc[a] = "verify" /\ pc'[a] \notin {"verify", "crashed"}
             /\ lockFile.ia_id = a)
            => pc'[a] \in {"held", "body"}]_vars

\* C11 witness: an acquire has found the expired record of a holder stale
\* and is about to unlink it, while that holder is inside its section and
\* its process passes the liveness test.
TTLReclaimBesideLiveHolder ==
    \E a, b \in Agents :
        /\ a # b
        /\ pc[b] = "cleanup"
        /\ pc[a] \in {"held", "body"}
        /\ lockFile # NoLock /\ lockFile.ia_id = a
        /\ Expired(lockFile)
        /\ _is_process_alive(lockFile.pid, lockFile.process_start_time)

\* the process the record names differs in creation time from the recorded
\* one by more than the tolerance
StartDiffers(lock_info) ==
    Abs(proc[lock_info.pid].start - lock_info.process_start_time)
        > START_TOLERANCE

BackedUp(tx, bk) == bk[tx.backup_id].content

NeverAttempted(tx) ==
    \/ tx.phase = "prepared"
    \/ tx.phase = "failed" /\ tx.error = "add"

RestoreGitState(tx) ==
    "restore_git_state" \in DOMAIN tx /\ tx["restore_git_state"] = TRUE

PhaseEdges ==
    {<<"none", "prepared">>, <<"prepared", "committing">>,
     <<"committing", "committed">>, <<"prepared", "failed">>,
     <<"committing", "failed">>, <<"failed", "rolling_back">>,
     <<"rolling_back", "rolled_back">>}

RECURSIVE PhaseReach(_, _)
\* the phases that are at most n edges after phase p
PhaseReach(p, n) ==
    IF n = 0 THEN {p}
    ELSE LET r == PhaseReach(p, n - 1) IN
         r \cup {e[2] : e \in {d \in PhaseEdges : d[1] \in r}}

BeginStep(a) ==
    /\ call[a].op = "begin" /\ pc[a] = "body"
    /\ call'[a] = NoCall /\ pc'[a] # "crashed"

\* the with-block of agent a's commit_transaction runs in this step
CommitStep(a) ==
    /\ call[a].op = "commit" /\ pc[a] = "body"
    /\ call'[a] = NoCall /\ pc'[a] # "crashed"

\* the stored transaction is neither committed, rolled back nor failed
ActiveTx == txFile.phase \in {"prepared", "committing"}

PathRejection ==
    [][\A a \in Agents :
        (BeginStep(a) /\ call[a].files \in {"dotdot", "outside"})
        => txFile' = txFile /\ backups' = backups]_vars

InScope(a) == mode[a] = "ctx" /\ pc[a] \in {"body", "release", "unlink"}

ReleaseIdempotent ==
    [][\A a \in Agents :
        (/\ pc[a] = "release" /\ mode[a] = "direct"
         /\ lockFile = NoLock
         /\ pc'[a] \notin {"release", "crashed"})
        => pc'[a] # "returned_false" /\ lockFile' = NoLock]_vars

WatchdogSweepAtomic ==
    [][\A a \in Agents :
        (/\ wd[a] = "cleanup" /\ wd'[a] = "idle"
         /\ lockFile # NoLock /\ lockFile' = NoLock)
        => _is_lock_stale(lockFile)]_vars

RestoreFails ==
    /\ txFile # NoTx /\ txFile.backup_id # NoBackupId
    /\ backups[txFile.backup_id] = NoBackup

Acquiring(a) == pc[a] \in {"loop", "sleep", "cleanup", "write", "verify"}

\* C26: every acquire_global_lock call that is in its loop eventually
\* leaves it, by returning True or by raising TimeoutError (or its process
\* dies), whatever the other agents do.
AcquireTerminates ==
    \A a \in Agents : Acquiring(a) ~> ~Acquiring(a)

\* C26 witness: an acquire has given up at its deadline while the other
\* agent still holds the lock it never released.
GaveUpBesideHolder ==
    \E a, b \in Agents :
        /\ pc[a] = "failed" /\ clock >= 1
        /\ pc[b] = "held" /\ lockFile # NoLock /\ lockFile.ia_id = b
        /\ ~_is_lock_stale(lockFile)

\* ============================================================ queue claims
\* no agent is in the list twice
WellFormedQueue(q) ==
    \A i, j \in 1..Len(q) : q[i].ia_id = q[j].ia_id => i = j

\* C30: every get_queue_status saw a well-formed queue, and when no queue
\* call is running the queue file holds exactly the agents whose last call
\* was an enqueue.
NoLostUpdates ==
    /\ \A t \in Agents : WellFormedQueue(qSeen[t])
    /\ (\A t \in Agents : qpc[t] = "idle")
         => \A t \in Agents : InQueue(queue, t) <=> qEnq[t]

\* C31: the queue file, and every list a queue call has read from it, holds
\* at most one entry per agent, whatever the order of enqueues and removals,
\* an enqueue by an agent that is already queued included.
QueueAgentUnique ==
    /\ WellFormedQueue(queue)
    /\ \A t \in Agents : WellFormedQueue(qLocal[t])

\* an agent whose last call was an enqueue, and whose entry is in the file,
\* is inside a second enqueue that has read the file with its entry
EnqueuedAgain ==
    \E t \in Agents :
        /\ qpc[t] = "add" /\ qEnq[t]
        /\ InQueue(qLocal[t], t) /\ InQueue(queue, t)
        /\ Len(queue) = NumAgents

\* C32: the wait queue is at every moment, so after every insert, in the
\* order of priority descending and, among entries of one priority, of
\* enqueue time ascending.
QueueOrdering ==
    \A i, j \in 1..Len(sq) :
        i < j => \/ sq[i].priority > sq[j].priority
                 \/ /\ sq[i].priority = sq[j].priority
                    /\ sq[i].queued_at <= sq[j].queued_at

\* an entry of higher priority stands before an entry that was enqueued
\* earlier, and two entries of one priority were enqueued at different times
InsertedAhead ==
    /\ \E i, j \in 1..Len(sq) :
          /\ i < j /\ sq[i].priority > sq[j].priority
          /\ sq[i].queued_at > sq[j].queued_at
    /\ \E i, j \in 1..Len(sq) :
          /\ i < j /\ sq[i].priority = sq[j].priority
          /\ sq[i].queued_at < sq[j].queued_at

NestedScopeEnters ==
    [][\A a \in Agents :
        (/\ reent[a] /\ pc[a] = "loop"
         /\ lockFile # NoLock /\ lockFile.ia_id = a /\ lockFile.pid = pidOf[a]
         /\ ~_is_lock_stale(lockFile))
        => ~(pc'[a] = "held" /\ InQueue(queue', a))]_vars

\* C37: when an agent that has acquired the lock in a lock_context starts
\* the release of that scope, which is without force, while the file holds
\* the record that another agent wrote after time had passed, a record that
\* is not stale and whose writer holds the lock, the release returns False:
\* it does not go on to unlink, and the record stays as it is.
ExpiredHolderHarmless ==
    [][\A a, b \in Agents :
        (/\ a # b
         /\ pc[a] = "release" /\ ~force[a]
         /\ mode[a] = "ctx" /\ acquired[a]
         /\ lockFile # NoLock /\ lockFile.ia_id = b /\ lockFile.acquired_at >= 1
         /\ ~_is_lock_stale(lockFile)
         /\ pc[b] \in {"held", "body"}
         /\ pc'[a] \notin {"release", "crashed"})
        => pc'[a] # "unlink" /\ lockFile' = lockFile]_vars

DequeueOnce ==
    \A q \in 1..MaxItems : handed[q] <= 1

\* the status of item queue_id in q, "none" when it is not there
ItemStatus(q, queue_id) ==
    LET at == {i \in 1..Len(q) : q[i].queue_id = queue_id} IN
    IF at = {} THEN "none" ELSE q[CHOOSE i \in at : TRUE].status

\* C35: a submit_operation returns SUCCESS only from the body of its lock
\* scope and with its item completed, returns TIMEOUT with its item failed,
\* and after a failed acquire its way out leaves the lock file as it is.
SubmitOutcome ==
    [][\A a \in Agents :
        /\ (outcome'[a] = "SUCCESS" /\ spc[a] # "idle" /\ spc'[a] = "idle")
            => /\ spc[a] = "finally_ok"
               /\ ItemStatus(queue_file', sItem[a]) = "completed"
        /\ (outcome'[a] = "TIMEOUT" /\ spc[a] # "idle" /\ spc'[a] = "idle")
            => ItemStatus(queue_file', sItem[a]) = "failed"
        /\ (spc[a] = "finally_timeout" /\ spc'[a] # spc[a])
            => lock_file' = lock_file]_vars

\* ============================================================ renew claims
\* agent a's call of refresh_lock ends in this step
RefreshStep(a) == returned'[a] # returned[a] /\ returned'[a].op = "refresh"

\* C29: refresh_lock returns True only when the record in the file carries
\* the caller's token, and then changes nothing but expires_at, which it sets
\* to now + ttl_seconds, not earlier than it was; when there is no record or
\* the record carries another token it returns False; when it returns False
\* the file is as it was; it never creates a record and never changes a
\* token.
RenewOwnerOnly ==
    [][\A a \in Agents : RefreshStep(a) =>
        /\ _owner_id' = _owner_id /\ uuid4' = uuid4
        /\ (lock_file = NoOwnerLock) => (lock_file' = NoOwnerLock)
        /\ (lock_file = NoOwnerLock \/ lock_file.owner_id # _owner_id[a])
              => ~returned'[a].ok
        /\ ~returned'[a].ok => lock_file' = lock_file
        /\ returned'[a].ok =>
              /\ lock_file' = [lock_file EXCEPT
                                 !.expires_at = clock + ttl_seconds[a]]
              /\ lock_file'.expires_at >= lock_file.expires_at]_vars

\* C29 witness: the owner's refresh_lock has pushed the expiry of its
\* record beyond the one it got at acquisition, and the other agent's
\* refresh_lock was refused.
RenewedAndRefused ==
    \E a, b \in Agents :
        /\ a # b
        /\ returned[a].op = "refresh" /\ returned[a].ok
        /\ lock_file.owner_id = _owner_id[a]
        /\ lock_file.expires_at > lock_file.acquired_at + ttl_seconds[a]
        /\ returned[b].op = "refresh" /\ ~returned[b].ok

====
